---- MODULE Spec2Model ----
(***************************************************************************)
(* Model of libcloudforensics' AWS volume-copy naming (aws.py) and of the  *)
(* Kubernetes selector builder (providers/kubernetes/selector.py).         *)
(*                                                                         *)
(* A Python str is a sequence of Unicode code points; bytes are a sequence *)
(* of numbers in 0..255.  An optional argument is <<>> for None and <<s>>  *)
(* for the string s.                                                       *)
(***************************************************************************)
EXTENDS Integers, Sequences, FiniteSets

VARIABLES
  genArgs,     \* arguments of the queued _GenerateVolumeName calls
  genNames,    \* names returned so far, genNames[i] for genArgs[i]
  selectors,   \* K8sSelector.selectors: the components, in order
  keywords,    \* the mapping returned by ToKeywords
  kwDone,      \* TRUE once ToKeywords has returned
  labels,      \* the dict given to FromDict: its <<key, value>> items
  clock,       \* datetime.now(), in seconds after midnight
  caller,      \* the response of get_caller_identity
  ec2Instances, \* the EC2 instances the service lists for the account
  volumes,     \* the EBS volumes of the account
  snapshots,   \* the EBS snapshots of the account, deleted ones included
  requests,    \* the requests issued by the last call, in order
  outcome,     \* how the last call ended
  result       \* arguments and result of the last call when it was a
               \* listing, a lookup or Snapshot, else [op |-> ""]

genVars == <<genArgs, genNames>>
selVars == <<selectors, keywords, kwDone, labels>>
cloudVars ==
  <<clock, caller, ec2Instances, volumes, snapshots, requests, outcome, result>>
vars == <<genArgs, genNames, selectors, keywords, kwDone, labels,
          clock, caller, ec2Instances, volumes, snapshots, requests, outcome,
          result>>

(***************************************************************************)
(* Bounds of the input domains.                                            *)
(***************************************************************************)
MaxIdLen == 2      \* longest user id / volume id of a single call
MaxPairIdLen == 1  \* longest user id / volume id when two calls are compared
MaxOver == 1       \* how far past a length limit the long inputs go
MaxComponents == 3 \* most components of a selector
MaxEntries == 2    \* most entries of the dict given to FromDict
MaxClock == 1      \* last reading of the clock
MaxSnapshots == 2  \* most snapshots created in one behaviour
MaxCopies == 2     \* most volumes created in one behaviour
MaxResources == 3  \* most instances, or volumes, the service lists
MaxPageSize == 2   \* most resources the service puts into one response

(***************************************************************************)
(* Program constants.                                                      *)
(***************************************************************************)
TAG_VALUE_MAX == 255      \* REGEX_TAG_VALUE '^.{1,255}$', and 255 in the code
CRC_WIDTH == 8            \* '{0:08x}'
Newline == 10             \* the one character '.' does not match

None == <<>>
Some(s) == <<s>>
Str_copy == <<45, 99, 111, 112, 121>>      \* '-copy'
Str_dash == <<45>>                         \* '-'

(***************************************************************************)
(* Python primitives.                                                      *)
(***************************************************************************)
Min(a, b) == IF a < b THEN a ELSE b
Max(a, b) == IF a > b THEN a ELSE b

\* s[:n], n may be negative (then the last -n characters are dropped)
SliceTo(s, n) ==
  IF n >= 0 THEN SubSeq(s, 1, Min(n, Len(s)))
            ELSE SubSeq(s, 1, Max(Len(s) + n, 0))

\* truth value of an optional str: None and '' are false
Truthy(opt) == opt # None /\ opt[1] # <<>>

\* a local variable: F applied to the value of v, v being evaluated once
Bind(v, F(_)) == CHOOSE r \in {F(b) : b \in {v}} : TRUE

\* one code point as UTF-8
EncodeChar(c) ==
  IF c < 128 THEN <<c>>
  ELSE IF c < 2048 THEN <<192 + (c \div 64), 128 + (c % 64)>>
  ELSE IF c < 65536 THEN <<224 + (c \div 4096), 128 + ((c \div 64) % 64),
                           128 + (c % 64)>>
  ELSE <<240 + (c \div 262144), 128 + ((c \div 4096) % 64),
         128 + ((c \div 64) % 64), 128 + (c % 64)>>

\* str.encode(): the encodings of the characters, concatenated in order
\* (the string is split in halves to keep the evaluation shallow)
RECURSIVE Encode(_)
Encode(s) ==
  IF Len(s) = 0 THEN <<>>
  ELSE IF Len(s) = 1 THEN EncodeChar(s[1])
  ELSE LET half == Len(s) \div 2
       IN Encode(SubSeq(s, 1, half)) \o Encode(SubSeq(s, half + 1, Len(s)))

RECURSIVE Xor(_, _)
Xor(a, b) ==
  IF a = 0 THEN b
  ELSE IF b = 0 THEN a
  ELSE ((a + b) % 2) + 2 * Xor(a \div 2, b \div 2)

\* exclusive or of two half bytes, tabulated, and of two bytes
XorNibble == [a \in 0..15 |-> [b \in 0..15 |-> Xor(a, b)]]
XorByte(a, b) ==
  XorNibble[a \div 16][b \div 16] * 16 + XorNibble[a % 16][b % 16]

(***************************************************************************)
(* binascii.crc32: a 32-bit value is the sequence of its four bytes, the   *)
(* most significant first.                                                 *)
(***************************************************************************)
Crc32Poly == <<237, 184, 131, 32>>              \* 0xEDB88320
Ones32 == <<255, 255, 255, 255>>                \* 0xFFFFFFFF
Xor32(x, y) == [i \in 1..4 |-> XorByte(x[i], y[i])]
\* x >> 1
Shr32(x) ==
  [i \in 1..4 |-> (x[i] \div 2) + (IF i > 1 THEN (x[i - 1] % 2) * 128 ELSE 0)]
Mask32(x) == [i \in 1..4 |-> x[i] % 256]        \* x & 0xffffffff

CrcShift(c) == IF c[4] % 2 = 1 THEN Xor32(Shr32(c), Crc32Poly) ELSE Shr32(c)

RECURSIVE CrcBits(_, _)
CrcBits(c, k) ==
  IF k = 0 THEN c ELSE CrcBits(Bind(CrcShift(c), LAMBDA v : v), k - 1)

\* the register after eight shifts, for every value of its low byte
CrcTable == [b \in 0..255 |-> CrcBits(<<0, 0, 0, b>>, 8)]

\* one byte: crc = table[(crc ^ byte) & 0xff] ^ (crc >> 8)
CrcByte(c, byte) ==
  Bind(CrcTable[XorByte(c[4], byte)], LAMBDA t :
    <<t[1], XorByte(c[1], t[2]), XorByte(c[2], t[3]), XorByte(c[3], t[4])>>)

\* the bytes lo..hi are consumed left to right; the range is split in
\* halves, which keeps the evaluation shallow
RECURSIVE CrcUpdate(_, _, _, _)
CrcUpdate(c, bytes, lo, hi) ==
  IF lo > hi THEN c
  ELSE IF lo = hi THEN CrcByte(c, bytes[lo])
  ELSE Bind(CrcUpdate(c, bytes, lo, (lo + hi) \div 2), LAMBDA left :
         CrcUpdate(left, bytes, (lo + hi) \div 2 + 1, hi))

crc32(data) ==
  Bind(data, LAMBDA bytes :
    Xor32(CrcUpdate(Ones32, bytes, 1, Len(bytes)), Ones32))

\* one lowercase hexadecimal digit
HexDigit(d) == IF d < 10 THEN 48 + d ELSE 87 + d

\* a byte as two hexadecimal digits
HexByte(n) == <<HexDigit(n \div 16), HexDigit(n % 16)>>

\* '{0:8x}': leading zeros come out as spaces
Format08x_SpacePadded(x) ==
  LET digits == HexByte(x[1]) \o HexByte(x[2]) \o HexByte(x[3])
                \o HexByte(x[4])
      Leading(i) == i < CRC_WIDTH /\ \A j \in 1..i : digits[j] = 48
  IN [i \in 1..CRC_WIDTH |-> IF Leading(i) THEN 32 ELSE digits[i]]

\* '{0:08x}'.format(n) for a 32-bit n
Format08x(x) ==
  SubSeq(HexByte(x[1]) \o HexByte(x[2]) \o HexByte(x[3]) \o HexByte(x[4]),
         1, CRC_WIDTH)

(***************************************************************************)
(* AwsAccount._GenerateVolumeName (aws.py 312-345).                        *)
(* snapshot is [name, volume |-> [volume_id]]; identity is the response of *)
(* get_caller_identity: None when it has no 'UserId', else <<UserId>>.     *)
(***************************************************************************)
\* get_caller_identity().get('UserId', '')
UserId(identity) == IF identity = None THEN <<>> ELSE identity[1]

\* the string the checksum is computed over
ChecksumInput(snapshot, identity) ==
  UserId(identity) \o snapshot.volume.volume_id

VolumeIdCrc32(snapshot, identity) ==
  Format08x(Mask32(crc32(Encode(ChecksumInput(snapshot, identity)))))

\* the separator before the checksum is not reserved
TruncateAt_NoSeparator(volume_id_crc32) ==
  TAG_VALUE_MAX - Len(volume_id_crc32) - Len(Str_copy)

\* truncate_at = 255 - len(volume_id_crc32) - len('-copy') - 1
TruncateAt(volume_id_crc32) ==
  TAG_VALUE_MAX - Len(volume_id_crc32) - Len(Str_copy) - 1

\* a prefix that is too long is dropped instead of truncated
PrefixSegment_Dropped(volume_name_prefix, truncate_at) ==
  LET with_dash == volume_name_prefix \o Str_dash
  IN IF Len(with_dash) > truncate_at THEN <<>> ELSE with_dash

\* volume_name_prefix += '-', cut to truncate_at when longer
PrefixSegment(volume_name_prefix, truncate_at) ==
  LET with_dash == volume_name_prefix \o Str_dash
  IN IF Len(with_dash) > truncate_at
       THEN SliceTo(with_dash, truncate_at)
       ELSE with_dash

\* '{0:s}{1:s}-{2:s}-copy' resp. '{0:s}-{1:s}-copy'
ComposeName(prefix_segment, base, volume_id_crc32) ==
  prefix_segment \o base \o Str_dash \o volume_id_crc32 \o Str_copy

\* the name also carries the number of names generated before it
_GenerateVolumeName_Counted(snapshot, volume_name_prefix, identity) ==
  ComposeName(<<48 + Len(genNames)>>, SliceTo(snapshot.name, 1),
              VolumeIdCrc32(snapshot, identity))

_GenerateVolumeName(snapshot, volume_name_prefix, identity) ==
  Bind(VolumeIdCrc32(snapshot, identity), LAMBDA volume_id_crc32 :
    LET truncate_at == TruncateAt(volume_id_crc32)
    IN IF Truthy(volume_name_prefix)
         THEN Bind(PrefixSegment(volume_name_prefix[1], truncate_at),
                LAMBDA prefix_segment :
                  ComposeName(prefix_segment,
                              SliceTo(snapshot.name,
                                      truncate_at - Len(prefix_segment)),
                              volume_id_crc32))
         ELSE ComposeName(<<>>, SliceTo(snapshot.name, truncate_at),
                          volume_id_crc32))

(***************************************************************************)
(* K8sSelector (selector.py).  A component is a record with its class in   *)
(* the field type and the attributes its constructor stores.               *)
(***************************************************************************)
Name(name) == [type |-> "Name", name |-> name]
Node(node) == [type |-> "Node", node |-> node]
Running == [type |-> "Running"]
Label(key, value) == [type |-> "Label", key |-> key, value |-> value]

\* Component.Keyword: LabelComponent resp. FieldComponent
Keyword(selector) ==
  IF selector.type = "Label" THEN "label_selector" ELSE "field_selector"

Str_metadata_name == <<109, 101, 116, 97, 100, 97, 116, 97, 46, 110, 97, 109,
                       101, 61>>                        \* 'metadata.name='
Str_spec_nodeName == <<115, 112, 101, 99, 46, 110, 111, 100, 101, 78, 97, 109,
                       101, 61>>                        \* 'spec.nodeName='
\* 'status.phase!=Failed,status.phase!=Succeeded'
Str_running == <<115, 116, 97, 116, 117, 115, 46, 112, 104, 97, 115, 101, 33,
                 61, 70, 97, 105, 108, 101, 100, 44, 115, 116, 97, 116, 117,
                 115, 46, 112, 104, 97, 115, 101, 33, 61, 83, 117, 99, 99, 101,
                 101, 100, 101, 100>>
Str_equals == <<61>>                                    \* '='
Str_comma == <<44>>                                     \* ','

\* Node renders with a lowercase field name
ToString_NodeLower(selector) ==
  CASE selector.type = "Name" -> Str_metadata_name \o selector.name
    [] selector.type = "Node" ->
         <<115, 112, 101, 99, 46, 110, 111, 100, 101, 110, 97, 109, 101, 61>>
         \o selector.node
    [] selector.type = "Running" -> Str_running
    [] selector.type = "Label" ->
         selector.key \o Str_equals \o selector.value

\* Component.ToString
ToString(selector) ==
  CASE selector.type = "Name" -> Str_metadata_name \o selector.name
    [] selector.type = "Node" -> Str_spec_nodeName \o selector.node
    [] selector.type = "Running" -> Str_running
    [] selector.type = "Label" ->
         selector.key \o Str_equals \o selector.value

\* defaultdict(list)
EmptyMap == [k \in {} |-> <<>>]

\* a plain dict created with both keywords
BothKeysMap == [k \in {"field_selector", "label_selector"} |-> <<>>]

\* a fragment the list already holds is not appended again
KeywordsAppend_Merged(map, selector) ==
  IF Keyword(selector) \in DOMAIN map
    THEN IF \E i \in 1..Len(map[Keyword(selector)]) :
              map[Keyword(selector)][i] = ToString(selector)
           THEN map
           ELSE [map EXCEPT ![Keyword(selector)] =
                   Append(@, ToString(selector))]
    ELSE [k \in DOMAIN map \cup {Keyword(selector)} |->
            IF k \in DOMAIN map THEN map[k] ELSE <<ToString(selector)>>]

\* keywords[selector.Keyword].append(selector.ToString())
KeywordsAppend(map, selector) ==
  IF Keyword(selector) \in DOMAIN map
    THEN [map EXCEPT ![Keyword(selector)] = Append(@, ToString(selector))]
    ELSE [k \in DOMAIN map \cup {Keyword(selector)} |->
            IF k \in DOMAIN map THEN map[k] ELSE <<ToString(selector)>>]

\* the loop over self.selectors, after its first n components
RECURSIVE Grouped(_, _, _)
Grouped(start, components, n) ==
  IF n = 0 THEN start
  ELSE KeywordsAppend(Grouped(start, components, n - 1), components[n])

\* ','.join(vs)
RECURSIVE Join(_)
Join(vs) ==
  IF Len(vs) = 0 THEN <<>>
  ELSE IF Len(vs) = 1 THEN vs[1]
  ELSE Join(SubSeq(vs, 1, Len(vs) - 1)) \o Str_comma \o vs[Len(vs)]

\* the groups are collected in a dict that starts with both keywords
ToKeywords_BothKeys(components) ==
  LET grouped == Grouped(BothKeysMap, components, Len(components))
  IN [k \in DOMAIN grouped |-> Join(grouped[k])]

\* K8sSelector.ToKeywords
ToKeywords(components) ==
  LET grouped == Grouped(EmptyMap, components, Len(components))
  IN [k \in DOMAIN grouped |-> Join(grouped[k])]

\* the Labels are built in reverse iteration order
FromDict_Reversed(dict) ==
  [i \in 1..Len(dict) |->
     Label(dict[Len(dict) + 1 - i][1], dict[Len(dict) + 1 - i][2])]

\* K8sSelector.FromDict: a dict is the sequence of its <<key, value>> items
\* in iteration order; one Label(k, labels[k]) per key k, in that order
FromDict(dict) == [i \in 1..Len(dict) |-> Label(dict[i][1], dict[i][2])]

(***************************************************************************)
(* The EC2 objects of aws.py.  An operation is an operator from its        *)
(* arguments and the cloud's state to a record with the exception raised   *)
(* (error, "" for none), the returned object (value), the requests issued  *)
(* and the cloud's new state.  fail names the request that the service     *)
(* answers with a ClientError, "none" when every request succeeds.         *)
(***************************************************************************)
Str_evidence == <<101, 118, 105, 100, 101, 110, 99, 101>>     \* 'evidence'
NoObject == [none |-> TRUE]

\* REGEX_TAG_VALUE.match(s) for '^.{1,255}$': 1 to 255 characters other
\* than newline, up to the end or to a newline that ends the string
RegexTagValueMatch(s) ==
  Bind(IF Len(s) > 0 /\ s[Len(s)] = Newline
         THEN SubSeq(s, 1, Len(s) - 1) ELSE s,
       LAMBDA line :
         /\ Len(line) >= 1
         /\ Len(line) <= TAG_VALUE_MAX
         /\ \A i \in 1..Len(line) : line[i] # Newline)

TwoDigits(n) == <<48 + ((n \div 10) % 10), 48 + (n % 10)>>

\* '%Y%m%d%H%M': the seconds are missing
Timestamp_Minutes(now) ==
  <<50, 48, 50, 48, 48, 49, 48, 49>>
  \o TwoDigits(now \div 3600) \o TwoDigits((now \div 60) % 60)

\* datetime.now().strftime('%Y%m%d%H%M%S'), on 1 January 2020
Timestamp(now) ==
  <<50, 48, 50, 48, 48, 49, 48, 49>>
  \o TwoDigits(now \div 3600) \o TwoDigits((now \div 60) % 60)
  \o TwoDigits(now % 60)

\* ids the service gives to the n-th snapshot and volume it creates
NewSnapshotId(n) == <<115, 110, 97, 112, 45, 48 + n>>        \* 'snap-n'
NewVolumeId(n) == <<118, 111, 108, 45, 48 + n>>              \* 'vol-n'

AwsVolume(volume_id, name) == [volume_id |-> volume_id, name |-> name]
AwsSnapshot(snapshot_id, volume, name) ==
  [snapshot_id |-> snapshot_id, volume |-> volume, name |-> name]

\* the name is cut after the timestamp has been appended
SnapshotName_WholeCut(self, snapshot_name, now) ==
  LET timestamp == Timestamp(now)
      base == IF Truthy(snapshot_name) THEN snapshot_name[1]
                                       ELSE self.volume_id
  IN SliceTo(base \o Str_dash \o timestamp, TAG_VALUE_MAX)

\* the name tag of AwsVolume.Snapshot
SnapshotName(self, snapshot_name, now) ==
  LET timestamp == Timestamp(now)
      base == IF Truthy(snapshot_name) THEN snapshot_name[1]
                                       ELSE self.volume_id
      truncate_at == TAG_VALUE_MAX - Len(timestamp) - 1
  IN SliceTo(base, truncate_at) \o Str_dash \o timestamp

\* AwsVolume.Snapshot
Snapshot(self, snapshot_name, now, cloud_snapshots, fail) ==
  Bind(SnapshotName(self, snapshot_name, now), LAMBDA name :
    LET snapshot_id == NewSnapshotId(Len(cloud_snapshots) + 1)
    IN IF ~RegexTagValueMatch(name)
         THEN [error |-> "ValueError", value |-> NoObject,
               requests |-> <<>>, snapshots |-> cloud_snapshots]
       ELSE IF fail = "create_snapshot"
         THEN [error |-> "RuntimeError", value |-> NoObject,
               requests |-> <<"create_snapshot">>,
               snapshots |-> cloud_snapshots]
       ELSE [error |-> "",
             value |-> AwsSnapshot(snapshot_id, self, name),
             requests |-> <<"create_snapshot", "snapshot_completed">>,
             snapshots |-> Append(cloud_snapshots,
                                  [snapshot_id |-> snapshot_id,
                                   volume_id |-> self.volume_id,
                                   name |-> name,
                                   taken |-> now,
                                   deleted |-> FALSE])])

\* the volume name a call of CreateVolumeFromSnapshot uses
VolumeNameFor(snapshot, volume_name, volume_name_prefix, id_response) ==
  IF ~Truthy(volume_name)
    THEN _GenerateVolumeName(snapshot, volume_name_prefix, id_response)
    ELSE volume_name[1]

\* the volume is created before its name is checked
CreateVolumeFromSnapshot_CheckedLate(snapshot, volume_name, volume_name_prefix, id_response, cloud_volumes, fail) ==
  Bind(VolumeNameFor(snapshot, volume_name, volume_name_prefix, id_response),
    LAMBDA name :
      LET lookup == IF ~Truthy(volume_name) THEN <<"get_caller_identity">>
                                            ELSE <<>>
          volume_id == NewVolumeId(Len(cloud_volumes) + 1)
          created == Append(cloud_volumes,
                            [volume_id |-> volume_id, name |-> Some(name),
                             snapshot |-> Some(snapshot.snapshot_id),
                             instance |-> None, device |-> None])
      IN IF fail = "create_volume"
           THEN [error |-> "RuntimeError", value |-> NoObject,
                 requests |-> lookup \o <<"create_volume">>,
                 volumes |-> cloud_volumes]
         ELSE IF ~RegexTagValueMatch(name)
           THEN [error |-> "ValueError", value |-> NoObject,
                 requests |->
                   lookup \o <<"create_volume", "volume_available">>,
                 volumes |-> created]
         ELSE [error |-> "", value |-> AwsVolume(volume_id, Some(name)),
               requests |->
                 lookup \o <<"create_volume", "volume_available">>,
               volumes |-> created])

\* AwsAccount.CreateVolumeFromSnapshot
CreateVolumeFromSnapshot(snapshot, volume_name, volume_name_prefix, id_response, cloud_volumes, fail) ==
  Bind(VolumeNameFor(snapshot, volume_name, volume_name_prefix, id_response),
    LAMBDA name :
      LET lookup == IF ~Truthy(volume_name) THEN <<"get_caller_identity">>
                                            ELSE <<>>
          volume_id == NewVolumeId(Len(cloud_volumes) + 1)
      IN IF ~RegexTagValueMatch(name)
           THEN [error |-> "ValueError", value |-> NoObject,
                 requests |-> lookup, volumes |-> cloud_volumes]
         ELSE IF fail = "create_volume"
           THEN [error |-> "RuntimeError", value |-> NoObject,
                 requests |-> lookup \o <<"create_volume">>,
                 volumes |-> cloud_volumes]
         ELSE [error |-> "", value |-> AwsVolume(volume_id, Some(name)),
               requests |->
                 lookup \o <<"create_volume", "volume_available">>,
               volumes |-> Append(cloud_volumes,
                                  [volume_id |-> volume_id,
                                   name |-> Some(name),
                                   snapshot |-> Some(snapshot.snapshot_id),
                                   instance |-> None,
                                   device |-> None])])

\* no request is sent
Delete_Unsent(self, cloud_snapshots, fail) ==
  [error |-> "", value |-> NoObject, requests |-> <<>>,
   snapshots |-> cloud_snapshots]

\* AwsSnapshot.Delete
Delete(self, cloud_snapshots, fail) ==
  IF fail = "delete_snapshot"
    THEN [error |-> "RuntimeError", value |-> NoObject,
          requests |-> <<"delete_snapshot">>, snapshots |-> cloud_snapshots]
    ELSE [error |-> "", value |-> NoObject,
          requests |-> <<"delete_snapshot">>,
          snapshots |-> [i \in 1..Len(cloud_snapshots) |->
                          IF cloud_snapshots[i].snapshot_id = self.snapshot_id
                            THEN [cloud_snapshots[i] EXCEPT !.deleted = TRUE]
                            ELSE cloud_snapshots[i]]]

(***************************************************************************)
(* Lookups and the copy workflow.                                          *)
(***************************************************************************)
Str_i1 == <<105, 49>>                                   \* 'i1'
Str_i2 == <<105, 50>>                                   \* 'i2'
Str_web == <<119, 101, 98>>                             \* 'web'
Str_v1 == <<118, 49>>                                   \* 'v1'
Str_data == <<100, 97, 116, 97>>                        \* 'data'
Str_sda1 == <<47, 100, 101, 118, 47, 115, 100, 97, 49>> \* '/dev/sda1'
Str_nope == <<110, 111, 112, 101>>                      \* 'nope'

\* the zone the account object is created with: 'us-east-1b'
Str_zone == <<117, 115, 45, 101, 97, 115, 116, 45, 49, 98>>
Str_eu_west_1 == <<101, 117, 45, 119, 101, 115, 116, 45, 49>>  \* 'eu-west-1'

\* AwsAccount.__init__: self.default_region, the zone minus its last letter
DefaultRegion(default_availability_zone) ==
  SliceTo(default_availability_zone, -1)

\* ClientApi: the region a client is created for
ClientRegion(region, default_region) ==
  IF Truthy(region) THEN region[1] ELSE default_region

\* the instances of the account of the copy workflow: i1 'web' boots from
\* v1, i2 has no volume attached
Instances ==
  <<[instance_id |-> Str_i1, name |-> Some(Str_web), state |-> "running",
     root_device_name |-> Str_sda1],
    [instance_id |-> Str_i2, name |-> None, state |-> "running",
     root_device_name |-> Str_sda1]>>

\* most resources the service puts into one response for that account
PageSize == 2

\* The service: the resources that match a request are cut into pages of at
\* most page_size; every page but the last carries the NextToken that
\* names the page after it ('2' for the second page, ...).
Pages(items, page_size) ==
  LET n == IF Len(items) = 0
             THEN 1 ELSE (Len(items) + page_size - 1) \div page_size
  IN [k \in 1..n |->
        [items |-> SubSeq(items, (k - 1) * page_size + 1,
                          Min(k * page_size, Len(items))),
         NextToken |-> IF k < n THEN Some(<<48 + k + 1>>) ELSE None]]

\* describe_instances / describe_volumes: the first page, or the page the
\* token names
Describe(pages, next_token) ==
  IF Truthy(next_token) THEN pages[next_token[1][1] - 48] ELSE pages[1]

\* the volumes matching the filter 'attachment.instance-id' (None: no
\* filter)
Filtered(cloud_volumes, attached_to) ==
  SelectSeq(cloud_volumes,
            LAMBDA v : attached_to = None \/ v.instance = attached_to)

\* dict[key] = info, the dict being the sequence of its items: a key that
\* is present keeps its place
DictSet(dict, key, info) ==
  IF \E i \in 1..Len(dict) : dict[i].key = key
    THEN [i \in 1..Len(dict) |->
            IF dict[i].key = key THEN [key |-> key, info |-> info]
                                 ELSE dict[i]]
    ELSE Append(dict, [key |-> key, info |-> info])

\* the name of the info dict: present when the Name tag is not empty
InfoName(name) == IF Truthy(name) THEN name ELSE None

\* the for loop of ListInstances over the first n instances of a response
RECURSIVE InstancesOfResponse(_, _, _, _)
InstancesOfResponse(items, n, instances, default_region) ==
  IF n = 0 THEN instances
  ELSE LET before == InstancesOfResponse(items, n - 1, instances,
                                         default_region)
       IN IF items[n].state # "terminated"
            THEN DictSet(before, items[n].instance_id,
                         [region |-> default_region,
                          name |-> InfoName(items[n].name)])
            ELSE before

\* the while loop of ListInstances, entered with next_token; described
\* are the requests issued so far
RECURSIVE InstancesLoop(_, _, _, _, _)
InstancesLoop(pages, next_token, instances, described, regions) ==
  LET response == Describe(pages, next_token)
      after == InstancesOfResponse(response.items, Len(response.items),
                                   instances, regions.default)
      issued == Append(described, [region |-> regions.client,
                                   NextToken |-> next_token])
  IN IF Truthy(response.NextToken)
       THEN InstancesLoop(pages, response.NextToken, after, issued, regions)
       ELSE [entries |-> after, described |-> issued]

\* only the first response is read
ListInstances_FirstPage(cloud_instances, page_size, region, default_region) ==
  LET response == Describe(Pages(cloud_instances, page_size), None)
  IN [entries |-> InstancesOfResponse(response.items, Len(response.items),
                                      <<>>, default_region),
      described |-> <<[region |-> ClientRegion(region, default_region),
                       NextToken |-> None]>>]

\* AwsAccount.ListInstances(region) on an account whose default region is
\* default_region, the service holding cloud_instances in that region
ListInstances(cloud_instances, page_size, region, default_region) ==
  InstancesLoop(Pages(cloud_instances, page_size), None, <<>>, <<>>,
                [client |-> ClientRegion(region, default_region),
                 default |-> default_region])

\* the for loop of ListVolumes over the first n volumes of a response
RECURSIVE VolumesOfResponse(_, _, _, _)
VolumesOfResponse(items, n, cloud_volumes, default_region) ==
  IF n = 0 THEN cloud_volumes
  ELSE DictSet(VolumesOfResponse(items, n - 1, cloud_volumes, default_region),
               items[n].volume_id,
               [region |-> default_region,
                name |-> InfoName(items[n].name),
                device |-> items[n].device])

\* the while loop of ListVolumes, entered with next_token
RECURSIVE VolumesLoop(_, _, _, _, _)
VolumesLoop(pages, next_token, listed, described, regions) ==
  LET response == Describe(pages, next_token)
      after == VolumesOfResponse(response.items, Len(response.items),
                                 listed, regions.default)
      issued == Append(described, [region |-> regions.client,
                                   NextToken |-> next_token])
  IN IF Truthy(response.NextToken)
       THEN VolumesLoop(pages, response.NextToken, after, issued, regions)
       ELSE [entries |-> after, described |-> issued]

\* AwsAccount.ListVolumes(region, filters), matching being the volumes of
\* the queried region that pass the filters
ListVolumes(matching, page_size, region, default_region) ==
  VolumesLoop(Pages(matching, page_size), None, <<>>, <<>>,
              [client |-> ClientRegion(region, default_region),
               default |-> default_region])

Raised(error, reqs) ==
  [error |-> error, value |-> NoObject, requests |-> reqs]
Returned(value, reqs) ==
  [error |-> "", value |-> value, requests |-> reqs]
\* raise RuntimeError(error_msg)
RaisedRuntimeError(message, reqs) ==
  [error |-> "RuntimeError", message |-> message, value |-> NoObject,
   requests |-> reqs]

\* the requests of one listing, by name
Requests(listing, api) == [i \in 1..Len(listing.described) |-> api]

\* AwsAccount.__GetInstanceById
GetInstanceById(cloud_instances, instance_id) ==
  LET listing == ListInstances(cloud_instances, PageSize, None,
                               DefaultRegion(Str_zone))
      reqs == Requests(listing, "describe_instances")
  IN IF \E k \in 1..Len(listing.entries) :
          listing.entries[k].key = instance_id
       THEN Returned([instance_id |-> instance_id, name |-> None], reqs)
       ELSE RaisedRuntimeError("was not found", reqs)

\* AwsAccount.__GetInstanceByName
GetInstanceByName(cloud_instances, instance_name) ==
  LET listing == ListInstances(cloud_instances, PageSize, None,
                               DefaultRegion(Str_zone))
      reqs == Requests(listing, "describe_instances")
      found == {k \in 1..Len(listing.entries) :
                  listing.entries[k].info.name = Some(instance_name)}
  IN IF Cardinality(found) = 0
       THEN RaisedRuntimeError("was not found", reqs)
     ELSE IF Cardinality(found) > 1
       THEN RaisedRuntimeError("Multiple were found", reqs)
     ELSE Returned([instance_id |->
                      listing.entries[CHOOSE k \in found : TRUE].key,
                    name |-> Some(instance_name)], reqs)

\* the error of the id lookup is the one raised
GetInstance_FirstError(cloud_instances, instance_name_or_id) ==
  LET by_id == GetInstanceById(cloud_instances, instance_name_or_id)
      by_name == GetInstanceByName(cloud_instances, instance_name_or_id)
  IN IF by_id.error = "" THEN by_id
     ELSE IF by_name.error = ""
       THEN Returned(by_name.value, by_id.requests \o by_name.requests)
     ELSE RaisedRuntimeError(by_id.message,
                             by_id.requests \o by_name.requests)

\* AwsAccount.GetInstance
GetInstance(cloud_instances, instance_name_or_id) ==
  LET by_id == GetInstanceById(cloud_instances, instance_name_or_id)
      by_name == GetInstanceByName(cloud_instances, instance_name_or_id)
  IN IF by_id.error = "" THEN by_id
     ELSE IF by_name.error = ""
       THEN Returned(by_name.value, by_id.requests \o by_name.requests)
     ELSE RaisedRuntimeError(by_name.message,
                             by_id.requests \o by_name.requests)

\* AwsAccount.__GetVolumeById
GetVolumeById(cloud_volumes, volume_id) ==
  LET listing == ListVolumes(cloud_volumes, PageSize, None,
                             DefaultRegion(Str_zone))
      reqs == Requests(listing, "describe_volumes")
  IN IF \E k \in 1..Len(listing.entries) :
          listing.entries[k].key = volume_id
       THEN Returned(AwsVolume(volume_id, None), reqs)
       ELSE RaisedRuntimeError("was not found", reqs)

\* AwsAccount.__GetVolumeByName
GetVolumeByName(cloud_volumes, volume_name) ==
  LET listing == ListVolumes(cloud_volumes, PageSize, None,
                             DefaultRegion(Str_zone))
      reqs == Requests(listing, "describe_volumes")
      found == {k \in 1..Len(listing.entries) :
                  listing.entries[k].info.name = Some(volume_name)}
  IN IF Cardinality(found) = 0
       THEN RaisedRuntimeError("was not found", reqs)
     ELSE IF Cardinality(found) > 1
       THEN RaisedRuntimeError("Multiple were found", reqs)
     ELSE Returned(AwsVolume(listing.entries[CHOOSE k \in found : TRUE].key,
                             Some(volume_name)), reqs)

\* AwsAccount.GetVolume
GetVolume(cloud_volumes, volume_name_or_id) ==
  LET by_id == GetVolumeById(cloud_volumes, volume_name_or_id)
      by_name == GetVolumeByName(cloud_volumes, volume_name_or_id)
  IN IF by_id.error = "" THEN by_id
     ELSE IF by_name.error = ""
       THEN Returned(by_name.value, by_id.requests \o by_name.requests)
     ELSE RaisedRuntimeError(by_name.message,
                             by_id.requests \o by_name.requests)

\* AwsInstance.GetBootVolume
GetBootVolume(self, cloud_volumes) ==
  LET boot_device ==
        (CHOOSE i \in {Instances[k] : k \in 1..Len(Instances)} :
           i.instance_id = self.instance_id).root_device_name
      listing == ListVolumes(Filtered(cloud_volumes, Some(self.instance_id)),
                             PageSize, None, DefaultRegion(Str_zone))
      found == {k \in 1..Len(listing.entries) :
                  listing.entries[k].info.device = Some(boot_device)}
      reqs == <<"root_device_name">> \o Requests(listing, "describe_volumes")
  IN IF found # {}
       THEN Returned(AwsVolume(
                       listing.entries[CHOOSE k \in found :
                                         \A j \in found : k <= j].key,
                       None), reqs)
       ELSE RaisedRuntimeError("Boot volume not found", reqs)

\* what CreateVolumeCopy's except clause raises for an exception raised in
\* its try block: a RuntimeError is replaced by the RuntimeError built
\* with '{0:s}'.format(volume_name), which is a TypeError for None
Reraised(error, volume_name) ==
  IF error = "RuntimeError"
    THEN IF volume_name = None THEN "TypeError" ELSE "RuntimeError"
    ELSE error

\* CreateVolumeCopy
CreateVolumeCopy(instance_name, volume_name, now, id_response, cloud_volumes, cloud_snapshots, fail) ==
  LET Ended(error, value, reqs, vols, snaps) ==
        [error |-> error, value |-> value, requests |-> reqs,
         volumes |-> vols, snapshots |-> snaps]
      \* snapshot.Delete() and the return
      Step4(reqs, snapshot, new_volume) ==
        Bind(Delete(snapshot.value, snapshot.snapshots, fail),
          LAMBDA deleted :
            IF deleted.error # ""
              THEN Ended(Reraised(deleted.error, volume_name), NoObject,
                         reqs \o deleted.requests, new_volume.volumes,
                         deleted.snapshots)
              ELSE Ended("", new_volume.value, reqs \o deleted.requests,
                         new_volume.volumes, deleted.snapshots))
      \* aws_account.CreateVolumeFromSnapshot(snapshot, 'evidence')
      Step3(reqs, snapshot) ==
        Bind(CreateVolumeFromSnapshot(snapshot.value, None,
                                      Some(Str_evidence), id_response,
                                      cloud_volumes, fail),
          LAMBDA new_volume :
            IF new_volume.error # ""
              THEN Ended(Reraised(new_volume.error, volume_name), NoObject,
                         reqs \o new_volume.requests, new_volume.volumes,
                         snapshot.snapshots)
              ELSE Step4(reqs \o new_volume.requests, snapshot, new_volume))
      \* volume_to_copy.Snapshot()
      Step2(reqs, volume_to_copy) ==
        Bind(Snapshot(volume_to_copy.value, None, now, cloud_snapshots, fail),
          LAMBDA snapshot :
            IF snapshot.error # ""
              THEN Ended(Reraised(snapshot.error, volume_name), NoObject,
                         reqs \o snapshot.requests, cloud_volumes,
                         snapshot.snapshots)
              ELSE Step3(reqs \o snapshot.requests, snapshot))
      \* GetVolume resp. GetBootVolume
      Step1(instance) ==
        Bind(IF Truthy(volume_name)
               THEN GetVolume(cloud_volumes, volume_name[1])
             ELSE IF instance.value = NoObject
               THEN Raised("AttributeError", <<>>)
             ELSE GetBootVolume(instance.value, cloud_volumes),
          LAMBDA volume_to_copy :
            IF volume_to_copy.error # ""
              THEN Ended(Reraised(volume_to_copy.error, volume_name),
                         NoObject,
                         instance.requests \o volume_to_copy.requests,
                         cloud_volumes, cloud_snapshots)
              ELSE Step2(instance.requests \o volume_to_copy.requests,
                         volume_to_copy))
  IN Bind(IF Truthy(instance_name)
            THEN GetInstance(Instances, instance_name[1])
            ELSE Returned(NoObject, <<>>),
       LAMBDA instance :
         IF instance.error # ""
           THEN Ended(instance.error, NoObject, instance.requests,
                      cloud_volumes, cloud_snapshots)
           ELSE Step1(instance))

(***************************************************************************)
(* Input domains.                                                          *)
(***************************************************************************)
\* all strings over the characters chars of length 0..n
RECURSIVE StringsUpTo(_, _)
StringsUpTo(chars, n) ==
  IF n = 0 THEN {<<>>}
  ELSE LET shorter == StringsUpTo(chars, n - 1)
       IN shorter \cup {Append(s, c) : s \in shorter, c \in chars}

\* a string of n letters, no two neighbours equal, without '-' or newline
LongStr(n) == [i \in 1..n |-> 97 + (i % 26)]

IdChars == {97, 233}                         \* 'a', 'e' with acute accent
BudgetNoPrefix == TAG_VALUE_MAX - CRC_WIDTH - Len(Str_copy) - 1

VolumeIds == StringsUpTo(IdChars, MaxIdLen)
Identities == {None} \cup {Some(s) : s \in StringsUpTo(IdChars, MaxIdLen)}
SnapshotNames ==
  {<<>>, <<115, 110>>, <<115, Newline, 110>>, <<115, 110, Newline>>}
  \cup {LongStr(n) : n \in (BudgetNoPrefix - 1)..(BudgetNoPrefix + MaxOver)}
  \cup {LongStr(TAG_VALUE_MAX + MaxOver)}
Prefixes ==
  {None, Some(<<>>), Some(<<112>>), Some(<<112, Newline, 113>>),
   Some(<<45>>)}
  \cup {Some(LongStr(n)) :
          n \in (BudgetNoPrefix - 2)..(BudgetNoPrefix + MaxOver)}

MakeSnapshot(name, volume_id) ==
  [name |-> name, volume |-> [volume_id |-> volume_id]]

GenCalls ==
  [snapshot : {MakeSnapshot(n, v) : n \in SnapshotNames, v \in VolumeIds},
   volume_name_prefix : Prefixes,
   identity : Identities]

PairCalls ==
  [snapshot : {MakeSnapshot(n, v) : n \in {<<>>, <<115>>},
                                    v \in StringsUpTo(IdChars, MaxPairIdLen)},
   volume_name_prefix : {None, Some(<<112>>)},
   identity : {None} \cup
              {Some(s) : s \in StringsUpTo(IdChars, MaxPairIdLen)}]

(***************************************************************************)
(* The name generator as a state machine: the queued calls are made in     *)
(* order, each appending the name it returns.                              *)
(***************************************************************************)
GenerateVolumeName ==
  /\ Len(genNames) < Len(genArgs)
  /\ LET call == genArgs[Len(genNames) + 1]
     IN genNames' = Append(genNames,
                           _GenerateVolumeName(call.snapshot,
                                               call.volume_name_prefix,
                                               call.identity))
  /\ UNCHANGED <<genArgs, selVars, cloudVars>>

\* no selector is being built
SelIdle ==
  selectors = <<>> /\ keywords = EmptyMap /\ kwDone = FALSE /\ labels = <<>>

\* no name generation is queued
GenIdle == genArgs = <<>> /\ genNames = <<>>

\* an account without volumes, and no call made
CloudIdle ==
  /\ clock = 0
  /\ caller = None
  /\ volumes = <<>>
  /\ snapshots = <<>>
  /\ requests = <<>>
  /\ outcome = [op |-> "", error |-> "", generated |-> FALSE]
  /\ ec2Instances = <<>>
  /\ result = [op |-> ""]

InitGen ==
  /\ genArgs \in {<<c>> : c \in GenCalls}
  /\ genNames = <<>>
  /\ SelIdle
  /\ CloudIdle

InitPair ==
  /\ genArgs \in {<<c, d>> : c \in PairCalls, d \in PairCalls}
  /\ genNames = <<>>
  /\ SelIdle
  /\ CloudIdle

NextGen == GenerateVolumeName

SpecGen == InitGen /\ [][NextGen]_vars
SpecPair == InitPair /\ [][NextGen]_vars

(***************************************************************************)
(* The selector builder as a state machine: a selector is constructed from *)
(* its components, then ToKeywords is called on it.                        *)
(***************************************************************************)
SelStrings == {<<>>, <<97>>, <<98, 44, 99>>}         \* '', 'a', 'b,c'

Components ==
  {Name(n) : n \in SelStrings} \cup {Node(n) : n \in SelStrings}
  \cup {Running} \cup {Label(k, v) : k \in SelStrings, v \in SelStrings}

RECURSIVE SelectorsUpTo(_)
SelectorsUpTo(n) ==
  IF n = 0 THEN {<<>>}
  ELSE LET shorter == SelectorsUpTo(n - 1)
       IN shorter \cup {Append(s, c) : s \in shorter, c \in Components}

CallToKeywords ==
  /\ ~kwDone
  /\ keywords' = ToKeywords(selectors)
  /\ kwDone' = TRUE
  /\ UNCHANGED <<selectors, labels, genVars, cloudVars>>

InitSel ==
  /\ selectors \in SelectorsUpTo(MaxComponents)
  /\ labels = <<>>
  /\ keywords = EmptyMap
  /\ kwDone = FALSE
  /\ GenIdle
  /\ CloudIdle

NextSel == CallToKeywords

SpecSel == InitSel /\ [][NextSel]_vars

\* the dicts of at most n entries: no key occurs twice
RECURSIVE DictsUpTo(_)
DictsUpTo(n) ==
  IF n = 0 THEN {<<>>}
  ELSE LET shorter == DictsUpTo(n - 1)
       IN shorter \cup
          {Append(d, <<k, v>>) :
             d \in shorter,
             k \in SelStrings,
             v \in SelStrings}

\* a dict has no key twice
IsDict(items) ==
  \A i \in 1..Len(items) : \A j \in 1..Len(items) :
    i # j => items[i][1] # items[j][1]

\* the selector has been constructed by FromDict(labels)
InitDict ==
  /\ labels \in {d \in DictsUpTo(MaxEntries) : IsDict(d)}
  /\ selectors = FromDict(labels)
  /\ keywords = EmptyMap
  /\ kwDone = FALSE
  /\ GenIdle
  /\ CloudIdle

SpecDict == InitDict /\ [][NextSel]_vars

(***************************************************************************)
(* The account as a state machine.  The clock advances between calls; a    *)
(* call reads it once.                                                     *)
(***************************************************************************)
\* longest volume id whose snapshot name fits, timestamp included, into
\* the base of a name generated with the prefix 'evidence'
EvidenceKeep ==
  BudgetNoPrefix - (Len(Str_evidence) + 1) - (Len(Timestamp(0)) + 1)

\* v1 'data', the boot volume of i1
BootVolume ==
  [volume_id |-> Str_v1, name |-> Some(Str_data), snapshot |-> None,
   instance |-> Some(Str_i1), device |-> Some(Str_sda1)]

\* an unattached volume without name tag whose id has n characters
LongVolume(n) ==
  [volume_id |-> LongStr(n), name |-> None, snapshot |-> None,
   instance |-> None, device |-> None]

\* longest snapshot_name, or volume id, that Snapshot keeps whole
SnapshotKeep == TAG_VALUE_MAX - 14 - 1
\* no name and 's\nn'; with them the empty name, a short name, and a name
\* that is cut
SnapshotNameArgs == {None, Some(<<115, Newline, 110>>)}
LongSnapshotNameArgs ==
  SnapshotNameArgs
  \cup {Some(<<>>), Some(<<115, 110>>), Some(LongStr(SnapshotKeep + MaxOver))}
VolumeNameArgs ==
  {None, Some(<<99, 111, 112, 121>>), Some(LongStr(TAG_VALUE_MAX + MaxOver))}
PrefixArgs == {Some(<<>>), Some(<<112, Newline, 113>>)}
\* <<instance_name, volume_name>> of CreateVolumeCopy: no, an unknown and a
\* known instance, without volume name and with the id of an unknown, of
\* the boot and of the long volume
CopyArgs(cloud_volumes) ==
  LET long == Some(cloud_volumes[2].volume_id)
  IN {<<None, None>>, <<Some(Str_i1), None>>, <<Some(Str_nope), None>>,
      <<None, Some(Str_nope)>>, <<None, Some(Str_v1)>>,
      <<None, long>>, <<Some(Str_i1), long>>}

\* the volumes created from snapshots so far
Created(cloud_volumes) ==
  {k \in 1..Len(cloud_volumes) : cloud_volumes[k].snapshot # None}

Tick ==
  /\ clock < MaxClock
  /\ clock' = clock + 1
  /\ UNCHANGED <<caller, ec2Instances, volumes, snapshots, requests, outcome,
                 result, genVars, selVars>>

\* AwsVolume.Snapshot on a volume of the account
CallSnapshot(names) ==
  /\ Len(snapshots) < MaxSnapshots
  /\ \E k \in 1..Len(volumes) : \E snapshot_name \in names :
     \E fail \in {"none", "create_snapshot"} :
       \E r \in {Snapshot(AwsVolume(volumes[k].volume_id, volumes[k].name),
                           snapshot_name, clock, snapshots, fail)} :
          /\ snapshots' = r.snapshots
          /\ requests' = r.requests
          /\ outcome' = [op |-> "Snapshot", error |-> r.error,
                         generated |-> FALSE]
          /\ result' = [op |-> "Snapshot", volume_id |-> volumes[k].volume_id,
                        snapshot_name |-> snapshot_name]
  /\ UNCHANGED <<clock, caller, ec2Instances, volumes, genVars, selVars>>

\* AwsAccount.CreateVolumeFromSnapshot on a snapshot object; the service
\* refuses to create a volume from a deleted snapshot
CallCreateVolumeFromSnapshot ==
  /\ Cardinality(Created(volumes)) < MaxCopies
  /\ \E k \in 1..Len(snapshots) : \E volume_name \in VolumeNameArgs :
     \E volume_name_prefix \in PrefixArgs :
     \E fail \in {"none", "create_volume"} :
       /\ snapshots[k].deleted => fail = "create_volume"
       /\ \E r \in {CreateVolumeFromSnapshot(
                       AwsSnapshot(snapshots[k].snapshot_id,
                                   AwsVolume(snapshots[k].volume_id, None),
                                   snapshots[k].name),
                       volume_name, volume_name_prefix, caller, volumes,
                       fail)} :
             /\ volumes' = r.volumes
             /\ requests' = r.requests
             /\ outcome' = [op |-> "CreateVolumeFromSnapshot",
                            error |-> r.error,
                            generated |-> ~Truthy(volume_name)]
  /\ result' = [op |-> ""]
  /\ UNCHANGED <<clock, caller, ec2Instances, snapshots, genVars, selVars>>

\* AwsSnapshot.Delete on a snapshot object; the service refuses to delete
\* a snapshot twice
CallDelete ==
  /\ \E k \in 1..Len(snapshots) : \E fail \in {"none", "delete_snapshot"} :
       /\ snapshots[k].deleted => fail = "delete_snapshot"
       /\ \E r \in {Delete(AwsSnapshot(snapshots[k].snapshot_id,
                                        AwsVolume(snapshots[k].volume_id,
                                                  None),
                                        snapshots[k].name),
                            snapshots, fail)} :
             /\ snapshots' = r.snapshots
             /\ requests' = r.requests
             /\ outcome' = [op |-> "Delete", error |-> r.error,
                            generated |-> FALSE]
  /\ result' = [op |-> ""]
  /\ UNCHANGED <<clock, caller, ec2Instances, volumes, genVars, selVars>>

\* CreateVolumeCopy(instance_name, zone, volume_name)
CallCreateVolumeCopy ==
  /\ Len(snapshots) < MaxSnapshots
  /\ Cardinality(Created(volumes)) < MaxCopies
  /\ \E args \in CopyArgs(volumes) :
     \E fail \in {"none", "create_snapshot", "create_volume",
                  "delete_snapshot"} :
       \E r \in {CreateVolumeCopy(args[1], args[2], clock, caller,
                                   volumes, snapshots, fail)} :
          /\ volumes' = r.volumes
          /\ snapshots' = r.snapshots
          /\ requests' = r.requests
          /\ outcome' = [op |-> "CreateVolumeCopy", error |-> r.error,
                         generated |-> TRUE]
  /\ UNCHANGED <<clock, caller, ec2Instances, result, genVars, selVars>>

InitAccount(account_volumes, identities) ==
  /\ clock = 0
  /\ caller \in identities
  /\ ec2Instances = Instances
  /\ volumes = account_volumes
  /\ result = [op |-> ""]
  /\ snapshots = <<>>
  /\ requests = <<>>
  /\ outcome = [op |-> "", error |-> "", generated |-> FALSE]
  /\ GenIdle
  /\ SelIdle

InitCloud == InitAccount(<<BootVolume>>, {None, Some(<<117>>)})

\* the account has one volume: the boot volume, or a volume whose id
\* Snapshot cuts
InitSnap ==
  \E volume \in {BootVolume, LongVolume(SnapshotKeep + MaxOver)} :
    InitAccount(<<volume>>, {None})

\* the account has the boot volume and one volume with a long id
InitCopy ==
  \E n \in {EvidenceKeep, EvidenceKeep + MaxOver} :
    InitAccount(<<BootVolume, LongVolume(n)>>, {Some(<<117>>)})

NextCloud ==
  \/ Tick
  \/ CallSnapshot(SnapshotNameArgs)
  \/ CallCreateVolumeFromSnapshot
  \/ CallDelete

NextSnap == Tick \/ CallSnapshot(LongSnapshotNameArgs)

NextCopy == Tick \/ CallCreateVolumeCopy

SpecCloud == InitCloud /\ [][NextCloud]_vars
SpecCopy == InitCopy /\ [][NextCopy]_vars
SpecSnap == InitSnap /\ [][NextSnap]_vars

(***************************************************************************)
(* Listings and lookups: the service holds some instances or some volumes, *)
(* and one of ListInstances, ListVolumes, GetInstance and GetVolume is     *)
(* called on the account.                                                  *)
(***************************************************************************)
InstanceId(k) == <<105, 48 + k>>                        \* 'i1', 'i2', ...
VolumeId(k) == <<118, 48 + k>>                          \* 'v1', 'v2', ...

\* Name tags: none, the empty one, a name, and the id of the first
\* resource
InstanceNames == {None, Some(<<>>), Some(Str_web), Some(InstanceId(1))}
VolumeNames == {None, Some(<<>>), Some(Str_data), Some(VolumeId(1))}

\* the accounts with n instances, i1..in
RECURSIVE InstanceLists(_)
InstanceLists(n) ==
  IF n = 0 THEN {<<>>}
  ELSE {Append(rest, [instance_id |-> InstanceId(n), name |-> name,
                      state |-> state, root_device_name |-> Str_sda1]) :
          rest \in InstanceLists(n - 1),
          name \in InstanceNames,
          state \in {"running", "terminated"}}

\* the accounts with n unattached volumes, v1..vn
RECURSIVE VolumeLists(_)
VolumeLists(n) ==
  IF n = 0 THEN {<<>>}
  ELSE {Append(rest, [volume_id |-> VolumeId(n), name |-> name,
                      snapshot |-> None, instance |-> None,
                      device |-> None]) :
          rest \in VolumeLists(n - 1), name \in VolumeNames}

\* what is looked up: '', the ids of the first two resources, a name and
\* a string no resource has as id or name
InstanceArgs == {<<>>, InstanceId(1), InstanceId(2), Str_web, Str_nope}
VolumeArgs == {<<>>, VolumeId(1), VolumeId(2), Str_data, Str_nope}
RegionArgs == {None, Some(Str_eu_west_1)}

\* AwsAccount.ListInstances(region=region)
CallListInstances ==
  /\ \E region \in RegionArgs : \E page_size \in 1..MaxPageSize :
       \E r \in {ListInstances(ec2Instances, page_size, region,
                               DefaultRegion(Str_zone))} :
         /\ result' = [op |-> "ListInstances", region |-> region,
                       page_size |-> page_size, entries |-> r.entries,
                       described |-> r.described]
         /\ requests' = Requests(r, "describe_instances")
  /\ outcome' = [op |-> "ListInstances", error |-> "", generated |-> FALSE]
  /\ UNCHANGED <<clock, caller, ec2Instances, volumes, snapshots, genVars,
                 selVars>>

\* AwsAccount.ListVolumes(region=region)
CallListVolumes ==
  /\ \E region \in RegionArgs : \E page_size \in 1..MaxPageSize :
       \E r \in {ListVolumes(volumes, page_size, region,
                             DefaultRegion(Str_zone))} :
         /\ result' = [op |-> "ListVolumes", region |-> region,
                       page_size |-> page_size, entries |-> r.entries,
                       described |-> r.described]
         /\ requests' = Requests(r, "describe_volumes")
  /\ outcome' = [op |-> "ListVolumes", error |-> "", generated |-> FALSE]
  /\ UNCHANGED <<clock, caller, ec2Instances, volumes, snapshots, genVars,
                 selVars>>

\* AwsAccount.GetInstance(instance_name_or_id)
CallGetInstance ==
  /\ \E instance_name_or_id \in InstanceArgs :
       \E r \in {GetInstance(ec2Instances, instance_name_or_id)} :
         /\ result' = [op |-> "GetInstance", arg |-> instance_name_or_id,
                       ret |-> r]
         /\ requests' = r.requests
         /\ outcome' = [op |-> "GetInstance", error |-> r.error,
                        generated |-> FALSE]
  /\ UNCHANGED <<clock, caller, ec2Instances, volumes, snapshots, genVars,
                 selVars>>

\* AwsAccount.GetVolume(volume_name_or_id)
CallGetVolume ==
  /\ \E volume_name_or_id \in VolumeArgs :
       \E r \in {GetVolume(volumes, volume_name_or_id)} :
         /\ result' = [op |-> "GetVolume", arg |-> volume_name_or_id,
                       ret |-> r]
         /\ requests' = r.requests
         /\ outcome' = [op |-> "GetVolume", error |-> r.error,
                        generated |-> FALSE]
  /\ UNCHANGED <<clock, caller, ec2Instances, volumes, snapshots, genVars,
                 selVars>>

InitList ==
  /\ clock = 0
  /\ caller = None
  /\ \E n \in 0..MaxResources :
       \/ ec2Instances \in InstanceLists(n) /\ volumes = <<>>
       \/ ec2Instances = <<>> /\ volumes \in VolumeLists(n)
  /\ snapshots = <<>>
  /\ requests = <<>>
  /\ outcome = [op |-> "", error |-> "", generated |-> FALSE]
  /\ result = [op |-> ""]
  /\ GenIdle
  /\ SelIdle

NextList ==
  CallListInstances \/ CallListVolumes \/ CallGetInstance \/ CallGetVolume

SpecList == InitList /\ [][NextList]_vars

(***************************************************************************)
(* Properties of _GenerateVolumeName.                                      *)
(***************************************************************************)
Made == 1..Len(genNames)
IsPrefixOf(p, s) == Len(p) <= Len(s) /\ SubSeq(s, 1, Len(p)) = p
IsSuffixOf(p, s) ==
  Len(p) <= Len(s) /\ SubSeq(s, Len(s) - Len(p) + 1, Len(s)) = p
IsLowerHex(c) == (c >= 48 /\ c <= 57) \/ (c >= 97 /\ c <= 102)

\* C1: every generated name has between 1 and 255 characters.
C1_NameLength ==
  \A i \in Made : Len(genNames[i]) >= 1 /\ Len(genNames[i]) <= TAG_VALUE_MAX

\* a name was generated from a name beyond the limit and a prefix beyond
\* the budget, and it fills the limit exactly
C1_Witness ==
  \E i \in Made :
    /\ Len(genArgs[i].snapshot.name) > TAG_VALUE_MAX
    /\ Truthy(genArgs[i].volume_name_prefix)
    /\ Len(genArgs[i].volume_name_prefix[1]) > BudgetNoPrefix
    /\ Len(genNames[i]) = TAG_VALUE_MAX

\* C2: every generated name ends with '-', the complete checksum of
\* UserId + volume id as 8 lowercase hexadecimal digits, and '-copy'.
C2_ChecksumSuffix ==
  \A i \in Made :
    LET crc == Format08x(Mask32(crc32(Encode(
                 UserId(genArgs[i].identity)
                 \o genArgs[i].snapshot.volume.volume_id))))
        n == Len(genNames[i])
        tail == Len(Str_copy) + CRC_WIDTH + 1
    IN /\ n >= tail
       /\ SubSeq(genNames[i], n - Len(Str_copy) + 1, n) = Str_copy
       /\ genNames[i][n - tail + 1] = 45
       /\ \A k \in (n - tail + 2)..(n - Len(Str_copy)) :
            IsLowerHex(genNames[i][k])
       /\ SubSeq(genNames[i], n - tail + 2, n - Len(Str_copy)) = crc

\* the suffix is complete although prefix and base were both truncated
C2_Witness ==
  \E i \in Made :
    /\ Len(genArgs[i].snapshot.name) > TAG_VALUE_MAX
    /\ Truthy(genArgs[i].volume_name_prefix)
    /\ Len(genArgs[i].volume_name_prefix[1]) > BudgetNoPrefix
    /\ genArgs[i].identity # None
    /\ genArgs[i].snapshot.volume.volume_id # <<>>
    /\ IsSuffixOf(Str_dash
                  \o VolumeIdCrc32(genArgs[i].snapshot, genArgs[i].identity)
                  \o Str_copy, genNames[i])

\* C3 (as claimed): with a non-empty prefix the name is P-B-checksum-copy
\* for a left-most part P of the prefix and a left-most part B of the
\* snapshot name, with '-' between P and B.
C3_SeparatorKept ==
  \A i \in Made :
    Truthy(genArgs[i].volume_name_prefix) =>
      \E p \in 0..Len(genArgs[i].volume_name_prefix[1]) :
        \E b \in 0..Len(genArgs[i].snapshot.name) :
          genNames[i] =
            SliceTo(genArgs[i].volume_name_prefix[1], p) \o Str_dash
            \o SliceTo(genArgs[i].snapshot.name, b) \o Str_dash
            \o VolumeIdCrc32(genArgs[i].snapshot, genArgs[i].identity)
            \o Str_copy

\* C4: with a non-empty prefix the name starts with the first
\* min(len(prefix), 241) characters of the prefix; a prefix that uses up
\* the budget leaves an empty base and a name of at most 255 characters.
C4_PrefixTruncated ==
  \A i \in Made :
    Truthy(genArgs[i].volume_name_prefix) =>
      LET prefix == genArgs[i].volume_name_prefix[1]
          kept == Min(Len(prefix), BudgetNoPrefix)
      IN /\ IsPrefixOf(SubSeq(prefix, 1, kept), genNames[i])
         /\ Len(prefix) + 1 >= BudgetNoPrefix =>
              /\ Len(genNames[i]) =
                   Min(Len(prefix) + 1, BudgetNoPrefix)
                   + 1 + CRC_WIDTH + Len(Str_copy)
              /\ Len(genNames[i]) <= TAG_VALUE_MAX

\* a prefix longer than the budget met a non-empty snapshot name
C4_Witness ==
  \E i \in Made :
    /\ Truthy(genArgs[i].volume_name_prefix)
    /\ Len(genArgs[i].volume_name_prefix[1]) > BudgetNoPrefix
    /\ genArgs[i].snapshot.name # <<>>
    /\ IsPrefixOf(SubSeq(genArgs[i].volume_name_prefix[1], 1, BudgetNoPrefix),
                  genNames[i])

\* C5 (as claimed): two generations with different (UserId, volume id)
\* pairs compute their checksums over different byte strings.
C5_DistinctChecksumInput ==
  Len(genNames) = 2 =>
    (<<UserId(genArgs[1].identity), genArgs[1].snapshot.volume.volume_id>>
       # <<UserId(genArgs[2].identity), genArgs[2].snapshot.volume.volume_id>>
     => Encode(ChecksumInput(genArgs[1].snapshot, genArgs[1].identity))
          # Encode(ChecksumInput(genArgs[2].snapshot, genArgs[2].identity)))

IsField(selector) == selector.type \in {"Name", "Node", "Running"}
IsLabel(selector) == selector.type = "Label"
HasComponent(P(_)) == \E i \in 1..Len(selectors) : P(selectors[i])

\* C10: the result has the key 'field_selector' exactly when a field
\* component exists and 'label_selector' exactly when a Label exists, it
\* has no other key, it is empty for no components, and no value is the
\* join of zero fragments.
C10_KeysOfKinds ==
  kwDone =>
    /\ DOMAIN keywords \subseteq {"field_selector", "label_selector"}
    /\ ("field_selector" \in DOMAIN keywords) <=> HasComponent(IsField)
    /\ ("label_selector" \in DOMAIN keywords) <=> HasComponent(IsLabel)
    /\ selectors = <<>> => keywords = EmptyMap
    /\ \A k \in DOMAIN keywords : keywords[k] # <<>>

\* ToKeywords was called on a selector of several labels and no field
\* component, and returned a mapping with the one key 'label_selector'
C10_Witness ==
  /\ kwDone
  /\ Len(selectors) >= 2
  /\ \A i \in 1..Len(selectors) : IsLabel(selectors[i])
  /\ DOMAIN keywords = {"label_selector"}

(***************************************************************************)
(* Properties of the copy workflow and of the two creating calls.          *)
(***************************************************************************)
\* the snapshot a created volume was made from
SourceOf(k) ==
  CHOOSE snap \in {snapshots[i] : i \in 1..Len(snapshots)} :
    snap.snapshot_id = volumes[k].snapshot[1]

\* C6 (as claimed): two copies of the same source volume made by the same
\* caller never get the same volume name.
C6_NoCollision ==
  \A i \in Created(volumes) : \A j \in Created(volumes) :
    (i # j /\ SourceOf(i).volume_id = SourceOf(j).volume_id)
      => volumes[i].name # volumes[j].name

\* C6 (amended): two copies of the same source volume made by the same
\* caller get different volume names when their snapshots were taken at
\* different seconds of the clock and the volume id has at most 217
\* characters.
C6_DistinctSeconds ==
  \A i \in Created(volumes) : \A j \in Created(volumes) :
    (/\ i # j
     /\ SourceOf(i).volume_id = SourceOf(j).volume_id
     /\ Len(SourceOf(i).volume_id) <= EvidenceKeep
     /\ SourceOf(i).taken # SourceOf(j).taken)
      => volumes[i].name # volumes[j].name

\* the volume with the longest id covered was copied twice, at different
\* seconds
C6_Witness ==
  \E i \in Created(volumes) : \E j \in Created(volumes) :
    /\ i # j
    /\ SourceOf(i).volume_id = SourceOf(j).volume_id
    /\ Len(SourceOf(i).volume_id) = EvidenceKeep
    /\ SourceOf(i).taken # SourceOf(j).taken
    /\ volumes[i].name # volumes[j].name

\* C7 (as claimed): CreateVolumeFromSnapshot without an explicit
\* volume_name never raises ValueError.
C7_GeneratedNameAccepted ==
  (outcome.op = "CreateVolumeFromSnapshot" /\ outcome.generated)
    => outcome.error # "ValueError"

\* C8: a call of CreateVolumeFromSnapshot or of Snapshot that raised
\* ValueError has issued no create_volume and no create_snapshot request.
C8_NothingCreatedOnValueError ==
  (outcome.op \in {"CreateVolumeFromSnapshot", "Snapshot"}
   /\ outcome.error = "ValueError")
    => \A i \in 1..Len(requests) :
         requests[i] \notin {"create_volume", "create_snapshot"}

\* CreateVolumeFromSnapshot rejected an explicit volume name
C8_Witness ==
  /\ outcome.op = "CreateVolumeFromSnapshot"
  /\ outcome.error = "ValueError"
  /\ ~outcome.generated
  /\ requests = <<>>
  /\ Created(volumes) = {}

(***************************************************************************)
(* Properties of the rendering: what a caller of ToKeywords expects, said  *)
(* without the dict the code collects the fragments in.                    *)
(***************************************************************************)
\* the fragment a component is documented to render
Fragment(c) ==
  IF c.type = "Name"
    THEN <<109, 101, 116, 97, 100, 97, 116, 97, 46, 110, 97, 109, 101, 61>>
         \o c.name
  ELSE IF c.type = "Node"
    THEN <<115, 112, 101, 99, 46, 110, 111, 100, 101, 78, 97, 109, 101, 61>>
         \o c.node
  ELSE IF c.type = "Running"
    THEN <<115, 116, 97, 116, 117, 115, 46, 112, 104, 97, 115, 101, 33, 61,
           70, 97, 105, 108, 101, 100>>
         \o <<44>>
         \o <<115, 116, 97, 116, 117, 115, 46, 112, 104, 97, 115, 101, 33,
              61, 83, 117, 99, 99, 101, 101, 100, 101, 100>>
  ELSE c.key \o <<61>> \o c.value

\* the fragments of one kind, in the components' order
FragmentsOf(components, kind) ==
  LET ofKind == SelectSeq(components, LAMBDA c : Keyword(c) = kind)
  IN [i \in 1..Len(ofKind) |-> Fragment(ofKind[i])]

\* the fragments with a ',' between neighbours, first fragment first
RECURSIVE CommaJoined(_)
CommaJoined(frags) ==
  IF Len(frags) = 0 THEN <<>>
  ELSE IF Len(frags) = 1 THEN frags[1]
  ELSE frags[1] \o <<44>> \o CommaJoined(Tail(frags))

Kinds == {"field_selector", "label_selector"}

\* C11: for each kind with a component, the value of ToKeywords' result is
\* the ','-join of the documented fragments of the components of that kind,
\* in the components' order, duplicates included.
C11_JoinedInOrder ==
  kwDone =>
    \A kind \in Kinds :
      FragmentsOf(selectors, kind) # <<>> =>
        /\ kind \in DOMAIN keywords
        /\ keywords[kind] = CommaJoined(FragmentsOf(selectors, kind))

\* ToKeywords was called on Label, field component, the same Label again
C11_Witness ==
  /\ kwDone
  /\ Len(selectors) = 3
  /\ IsLabel(selectors[1])
  /\ selectors[2].type = "Node"
  /\ selectors[3] = selectors[1]
  /\ keywords["label_selector"] =
       Fragment(selectors[1]) \o <<44>> \o Fragment(selectors[1])
  /\ keywords["field_selector"] = Fragment(selectors[2])

\* C12: the selector FromDict builds has one Label per entry of the dict,
\* in iteration order; ToKeywords on it returns the empty mapping for the
\* empty dict and else only 'label_selector', every 'k=v' joined by ','
\* in iteration order.
C12_FromDictLabels ==
  /\ Len(selectors) = Len(labels)
  /\ \A i \in 1..Len(labels) :
       selectors[i] = Label(labels[i][1], labels[i][2])
  /\ kwDone =>
       IF labels = <<>>
         THEN keywords = EmptyMap
         ELSE /\ DOMAIN keywords = {"label_selector"}
              /\ keywords["label_selector"] =
                   CommaJoined([i \in 1..Len(labels) |->
                                  labels[i][1] \o <<61>> \o labels[i][2]])

\* ToKeywords was called on the selector of a dict with two entries
C12_Witness ==
  /\ kwDone
  /\ Len(labels) = 2
  /\ labels[1] # labels[2]
  /\ DOMAIN keywords = {"label_selector"}

\* value.split(','): the pieces between the commas, empty ones included
Split(value) ==
  LET commas == {i \in 1..Len(value) : value[i] = 44}
      n == Cardinality(commas)
      Cut(k) == IF k = 0 THEN 0
                ELSE IF k = n + 1 THEN Len(value) + 1
                ELSE CHOOSE i \in commas :
                       Cardinality({j \in commas : j < i}) = k - 1
  IN [k \in 1..(n + 1) |-> SubSeq(value, Cut(k - 1) + 1, Cut(k) - 1)]

\* the two halves of Running's fragment, where they follow each other, are
\* one fragment again
RECURSIVE Regrouped(_)
Regrouped(pieces) ==
  IF Len(pieces) = 0 THEN <<>>
  ELSE IF /\ Len(pieces) >= 2
          /\ pieces[1] \o <<44>> \o pieces[2] = Fragment(Running)
          /\ Len(pieces[1]) = 20
    THEN <<Fragment(Running)>> \o Regrouped(SubSeq(pieces, 3, Len(pieces)))
  ELSE <<pieces[1]>> \o Regrouped(Tail(pieces))

\* the fragment list read back from one value of the keyword map
Recovered(value, kind) ==
  IF kind = "field_selector" THEN Regrouped(Split(value)) ELSE Split(value)

HasComma(str) == \E i \in 1..Len(str) : str[i] = 44
NoComma(c) ==
  CASE c.type = "Name" -> ~HasComma(c.name)
    [] c.type = "Node" -> ~HasComma(c.node)
    [] c.type = "Running" -> TRUE
    [] c.type = "Label" -> ~HasComma(c.key) /\ ~HasComma(c.value)

\* C13 (as claimed): for every selector, splitting each value of
\* ToKeywords' result on ',' gives back the fragments of that kind, in
\* order.
C13_RoundTrip ==
  kwDone =>
    \A kind \in DOMAIN keywords :
      Recovered(keywords[kind], kind) = FragmentsOf(selectors, kind)

\* C13 (amended): for every selector whose names, nodes, keys and values
\* hold no ',', splitting each value of ToKeywords' result on ',' gives
\* back the fragments of that kind, in order.
C13_RoundTripNoComma ==
  (kwDone /\ \A i \in 1..Len(selectors) : NoComma(selectors[i])) =>
    \A kind \in Kinds :
      IF FragmentsOf(selectors, kind) = <<>>
        THEN kind \notin DOMAIN keywords
        ELSE /\ kind \in DOMAIN keywords
             /\ Recovered(keywords[kind], kind)
                  = FragmentsOf(selectors, kind)

\* Running, a Name and a Label without commas were rendered and read back
C13_Witness ==
  /\ kwDone
  /\ Len(selectors) = 3
  /\ selectors[1] = Running
  /\ selectors[2].type = "Name"
  /\ selectors[3].type = "Label"
  /\ \A i \in 1..3 : NoComma(selectors[i])
  /\ Recovered(keywords["field_selector"], "field_selector")
       = <<Fragment(selectors[1]), Fragment(selectors[2])>>
  /\ Recovered(keywords["label_selector"], "label_selector")
       = <<Fragment(selectors[3])>>

(***************************************************************************)
(* Properties of the lookups.                                              *)
(***************************************************************************)
\* what the lookup of x is claimed to do on an account whose listed
\* resources have the ids and Name tags of listed: matches by id first,
\* then the single match by Name tag, else the error of the name lookup
Claimed(listed, x) ==
  LET named == {k \in 1..Len(listed) : listed[k].name = Some(x)}
  IN IF \E k \in 1..Len(listed) : listed[k].id = x
       THEN [error |-> "", id |-> x]
     ELSE IF Cardinality(named) = 1
       THEN [error |-> "", id |-> listed[CHOOSE k \in named : TRUE].id]
     ELSE [error |-> "RuntimeError",
           message |-> IF named = {} THEN "was not found"
                                     ELSE "Multiple were found"]

\* the instances that are listed, and the volumes, by id and Name tag
ListedInstances ==
  LET live == SelectSeq(ec2Instances, LAMBDA i : i.state # "terminated")
  IN [k \in 1..Len(live) |->
        [id |-> live[k].instance_id, name |-> live[k].name]]
ListedVolumes ==
  [k \in 1..Len(volumes) |->
     [id |-> volumes[k].volume_id, name |-> volumes[k].name]]

\* what the last lookup did, in the same form
Observed ==
  IF result.ret.error # ""
    THEN [error |-> result.ret.error, message |-> result.ret.message]
  ELSE IF result.op = "GetInstance"
    THEN [error |-> "", id |-> result.ret.value.instance_id]
  ELSE [error |-> "", id |-> result.ret.value.volume_id]

\* C14 (as claimed): GetInstance(x) and GetVolume(x) return the listed
\* resource with id x if there is one, else the single listed resource
\* whose Name tag is x, else raise the RuntimeError of the name lookup.
C14_IdThenName ==
  /\ result.op = "GetInstance" =>
       Observed = Claimed(ListedInstances, result.arg)
  /\ result.op = "GetVolume" =>
       Observed = Claimed(ListedVolumes, result.arg)

\* C14 (amended): the same for every x that is not the empty string.
C14_IdThenNameNonEmpty ==
  /\ (result.op = "GetInstance" /\ result.arg # <<>>) =>
       Observed = Claimed(ListedInstances, result.arg)
  /\ (result.op = "GetVolume" /\ result.arg # <<>>) =>
       Observed = Claimed(ListedVolumes, result.arg)

\* no instance has the id looked up and two have it as Name tag: both
\* lookups failed and the error of the name lookup was raised
C14_Witness ==
  /\ result.op = "GetInstance"
  /\ result.arg = Str_web
  /\ Cardinality({k \in 1..Len(ListedInstances) :
                    ListedInstances[k].name = Some(Str_web)}) = 2
  /\ result.ret.error = "RuntimeError"
  /\ result.ret.message = "Multiple were found"

\* the ids of the entries of the last listing
ListedIds == {result.entries[k].key : k \in 1..Len(result.entries)}

\* the last listing issued one request per page of the service, the first
\* without token and each further one with the token of the page before
FollowedPages(pages) ==
  /\ Len(result.described) = Len(pages)
  /\ result.described[1].NextToken = None
  /\ \A k \in 2..Len(pages) :
       /\ pages[k - 1].NextToken # None
       /\ result.described[k].NextToken = pages[k - 1].NextToken
  /\ pages[Len(pages)].NextToken = None

\* C16: ListInstances issues one describe request per page, each with the
\* NextToken of the response before, until a response has no NextToken,
\* and returns one entry for each instance that is not terminated and no
\* other entry; ListVolumes does the same and returns one entry for each
\* volume.
C16_AllPages ==
  /\ result.op = "ListInstances" =>
       /\ FollowedPages(Pages(ec2Instances, result.page_size))
       /\ ListedIds = {ec2Instances[k].instance_id :
                         k \in {j \in 1..Len(ec2Instances) :
                                  ec2Instances[j].state # "terminated"}}
       /\ Cardinality(ListedIds) = Len(result.entries)
  /\ result.op = "ListVolumes" =>
       /\ FollowedPages(Pages(volumes, result.page_size))
       /\ ListedIds = {volumes[k].volume_id : k \in 1..Len(volumes)}
       /\ Cardinality(ListedIds) = Len(result.entries)

\* ListInstances received several pages: the instance of the first page is
\* terminated and left out, the one of the last page is listed
C16_Witness ==
  /\ result.op = "ListInstances"
  /\ Len(result.described) >= 2
  /\ result.described[2].NextToken = Some(<<50>>)
  /\ ec2Instances[1].state = "terminated"
  /\ ec2Instances[1].instance_id \notin ListedIds
  /\ ec2Instances[Len(ec2Instances)].instance_id \in ListedIds

\* C20 (as claimed): every entry of a listing made with a region argument
\* has that region as its 'region'.
C20_EntryRegion ==
  (result.op \in {"ListInstances", "ListVolumes"} /\ Truthy(result.region))
    => \A k \in 1..Len(result.entries) :
         result.entries[k].info.region = result.region[1]

(***************************************************************************)
(* Properties of AwsVolume.Snapshot.                                       *)
(***************************************************************************)
IsDigits(str) == \A i \in 1..Len(str) : str[i] \in 48..57

\* C19: the snapshot a successful Snapshot call created is tagged
\* N + '-' + T, N being the first 240 characters (all of them when there
\* are fewer) of snapshot_name, or of the volume id when snapshot_name is
\* None or empty, and T being 14 digits; the tag has at most 255
\* characters.
C19_SnapshotName ==
  (outcome.op = "Snapshot" /\ outcome.error = "") =>
    LET name == snapshots[Len(snapshots)].name
        source == IF result.snapshot_name \in {None, Some(<<>>)}
                    THEN result.volume_id ELSE result.snapshot_name[1]
        N == IF Len(source) > 240 THEN SubSeq(source, 1, 240) ELSE source
        T == SubSeq(name, Len(name) - 13, Len(name))
    IN /\ Len(name) <= 255
       /\ Len(name) >= 15
       /\ IsDigits(T)
       /\ name = N \o <<45>> \o T

\* Snapshot was called with a name of more than 240 characters and
\* created a snapshot whose tag has 255 characters
C19_Witness ==
  /\ outcome.op = "Snapshot"
  /\ outcome.error = ""
  /\ result.snapshot_name # None
  /\ Len(result.snapshot_name[1]) > 240
  /\ Len(snapshots[Len(snapshots)].name) = 255

(***************************************************************************)
(* Properties of CreateVolumeCopy.                                         *)
(***************************************************************************)
\* C15 (as claimed): a CreateVolumeCopy that issued a request and failed
\* ended with a RuntimeError.
C15_FailureIsRuntimeError ==
  (outcome.op = "CreateVolumeCopy" /\ requests # <<>> /\ outcome.error # "")
    => outcome.error = "RuntimeError"

\* where the request r is in the requests of the last call, 0 if nowhere
Position(r) ==
  IF \E i \in 1..Len(requests) : requests[i] = r
    THEN CHOOSE i \in 1..Len(requests) : requests[i] = r
    ELSE 0

Count(r) == Cardinality({i \in 1..Len(requests) : requests[i] = r})

\* C17: a CreateVolumeCopy that returned a volume has issued, once each
\* and in this order, create_snapshot, the wait for snapshot_completed,
\* create_volume, the wait for volume_available and delete_snapshot, and
\* the snapshot it created is deleted.
C17_StepsInOrder ==
  (outcome.op = "CreateVolumeCopy" /\ outcome.error = "") =>
    /\ \A r \in {"create_snapshot", "snapshot_completed", "create_volume",
                  "volume_available", "delete_snapshot"} : Count(r) = 1
    /\ Position("create_snapshot") < Position("snapshot_completed")
    /\ Position("snapshot_completed") < Position("create_volume")
    /\ Position("create_volume") < Position("volume_available")
    /\ Position("volume_available") < Position("delete_snapshot")
    /\ Position("delete_snapshot") = Len(requests)
    /\ snapshots[Len(snapshots)].deleted

\* a second copy has been made: two volumes exist that were created from
\* snapshots, and both snapshots are deleted
C17_Witness ==
  /\ outcome.op = "CreateVolumeCopy"
  /\ outcome.error = ""
  /\ Cardinality(Created(volumes)) = 2
  /\ Len(snapshots) = 2
  /\ snapshots[1].deleted /\ snapshots[2].deleted
  /\ Position("volume_available") + 1 = Position("delete_snapshot")

\* C18 (as claimed): a CreateVolumeCopy that has created its snapshot has
\* issued a delete request for it when it ends, whether it returns or
\* raises.
C18_SnapshotDeleteIssued ==
  (outcome.op = "CreateVolumeCopy" /\ Position("snapshot_completed") > 0)
    => Position("delete_snapshot") > 0

====
